---- MODULE Spec2Model ----
(***************************************************************************)
(* Budget Analyzer (src/app.py): the budget snapshot and the analytic      *)
(* functions computed from it (totals, breakdown, treemap hierarchy,       *)
(* savings suggestions, Excel export tables), and the store of snapshots   *)
(* and presets under user_data with the sessions that read and write it.   *)
(*                                                                         *)
(* Representation.                                                         *)
(*  - A Python dict is a sequence of [key, value] pairs in insertion       *)
(*    order; iteration (.items(), .values()) follows that sequence.        *)
(*  - A Python str that takes part in formatting or splitting is a         *)
(*    sequence of tokens: a Schema name is one token, the separator        *)
(*    " - " is one token, '' is the empty sequence.                        *)
(*  - A Python float holding an amount is an integer count of tenths       *)
(*    (Float(n) = 10*n); every factor the code multiplies by (0.1 .. 0.5)  *)
(*    is a whole number of tenths.  For the integer amounts of a snapshot  *)
(*    the IEEE comparisons of the code agree with the exact ones.          *)
(*  - A percentage x / y * 100 is the exact ratio [num |-> x, den |-> y];  *)
(*    its rendering to text (:.1f, round(1)) is not modelled.              *)
(***************************************************************************)
EXTENDS Integers, Sequences, FiniteSets, TLC

VARIABLES budget_data, call, files, dirs, session_state, script

vars == <<budget_data, call, files, dirs, session_state, script>>

----------------------------------------------------------------------------
(* Global constants of the program *)

INCOME_CATEGORIES == <<"Salary", "Side Income", "Investments", "Other Income">>

EXPENSE_CATEGORIES ==
  << [key |-> "Housing", value |-> <<"Rent/Mortgage", "Utilities", "Internet", "Maintenance">>],
     [key |-> "Transportation", value |-> <<"Public Transport", "Car Expenses", "Fuel", "Car Insurance", "Car Maintenance">>],
     [key |-> "Food", value |-> <<"Groceries", "Eating Out", "Food Delivery">>],
     [key |-> "Entertainment", value |-> <<"Streaming Services", "Movies/Events", "Hobbies">>],
     [key |-> "Health", value |-> <<"Insurance", "Medication", "Gym/Fitness">>],
     [key |-> "Personal", value |-> <<"Clothing", "Haircuts", "Personal Care">>],
     [key |-> "Education", value |-> <<"Courses", "Books", "School Fees">>],
     [key |-> "Savings", value |-> <<"Emergency Fund", "Investment Savings", "Retirement">>],
     [key |-> "Debt", value |-> <<"Student Loans", "Credit Card", "Other Loans">>],
     [key |-> "Other", value |-> <<"Gifts", "Charity", "Miscellaneous">>] >>

DEFAULT_VALUES ==
  << [key |-> "Salary", value |-> 45000],
     [key |-> "Side Income", value |-> 0],
     [key |-> "Investments", value |-> 0],
     [key |-> "Other Income", value |-> 0],
     [key |-> "Rent/Mortgage", value |-> 12000],
     [key |-> "Utilities", value |-> 1200],
     [key |-> "Internet", value |-> 550],
     [key |-> "Maintenance", value |-> 500],
     [key |-> "Public Transport", value |-> 800],
     [key |-> "Car Expenses", value |-> 0],
     [key |-> "Fuel", value |-> 0],
     [key |-> "Car Insurance", value |-> 0],
     [key |-> "Car Maintenance", value |-> 0],
     [key |-> "Groceries", value |-> 4000],
     [key |-> "Eating Out", value |-> 1500],
     [key |-> "Food Delivery", value |-> 800],
     [key |-> "Streaming Services", value |-> 400],
     [key |-> "Movies/Events", value |-> 600],
     [key |-> "Hobbies", value |-> 800],
     [key |-> "Insurance", value |-> 400],
     [key |-> "Medication", value |-> 200],
     [key |-> "Gym/Fitness", value |-> 500],
     [key |-> "Clothing", value |-> 1000],
     [key |-> "Haircuts", value |-> 400],
     [key |-> "Personal Care", value |-> 500],
     [key |-> "Courses", value |-> 0],
     [key |-> "Books", value |-> 300],
     [key |-> "School Fees", value |-> 0],
     [key |-> "Emergency Fund", value |-> 2000],
     [key |-> "Investment Savings", value |-> 1500],
     [key |-> "Retirement", value |-> 1000],
     [key |-> "Student Loans", value |-> 0],
     [key |-> "Credit Card", value |-> 0],
     [key |-> "Other Loans", value |-> 0],
     [key |-> "Gifts", value |-> 500],
     [key |-> "Charity", value |-> 300],
     [key |-> "Miscellaneous", value |-> 1000] >>

----------------------------------------------------------------------------
(* Python dict, list and str primitives *)

HasKey(d, k) == \E i \in DOMAIN d : d[i].key = k

\* d.get(k, default)
DictGet(d, k, default) ==
  IF HasKey(d, k) THEN d[CHOOSE i \in DOMAIN d : d[i].key = k].value ELSE default

\* d[k] = v : an existing key keeps its position, a new key is appended
DictSet(d, k, v) ==
  IF HasKey(d, k)
    THEN [i \in DOMAIN d |-> IF d[i].key = k THEN [key |-> k, value |-> v] ELSE d[i]]
    ELSE Append(d, [key |-> k, value |-> v])

\* d.values()
Values(d) == [i \in DOMAIN d |-> d[i].value]

\* sum(xs)
RECURSIVE sum(_)
sum(xs) == IF xs = <<>> THEN 0 ELSE Head(xs) + sum(Tail(xs))

\* a Schema name as a str
Str(name) == <<name>>

\* s.contains(sep), sep one token
Contains(s, sep) == \E i \in DOMAIN s : s[i] = sep

\* s.split(sep): the pieces between the occurrences of sep
RECURSIVE Split(_, _)
Split(s, sep) ==
  IF ~Contains(s, sep) THEN <<s>>
  ELSE LET i == CHOOSE j \in DOMAIN s : s[j] = sep /\ \A k \in 1..(j - 1) : s[k] # sep
       IN  <<SubSeq(s, 1, i - 1)>> \o Split(SubSeq(s, i + 1, Len(s)), sep)

\* float(n) for an amount n: tenths
Float(n) == 10 * n

----------------------------------------------------------------------------
(* Functions for data handling *)

RECURSIVE DefaultExpenses(_)
DefaultExpenses(i) ==
  IF i > Len(EXPENSE_CATEGORIES) THEN <<>>
  ELSE LET subcategories == EXPENSE_CATEGORIES[i].value
       IN  << [key |-> EXPENSE_CATEGORIES[i].key,
               value |-> [j \in DOMAIN subcategories |->
                           [key |-> subcategories[j],
                            value |-> DictGet(DEFAULT_VALUES, subcategories[j], 0)]]] >>
           \o DefaultExpenses(i + 1)

get_default_budget ==
  [income |-> [i \in DOMAIN INCOME_CATEGORIES |->
                [key |-> INCOME_CATEGORIES[i],
                 value |-> DictGet(DEFAULT_VALUES, INCOME_CATEGORIES[i], 0)]],
   expenses |-> DefaultExpenses(1)]

get_total_income(income_data) == sum(Values(income_data))

RECURSIVE TotalExpensesLoop(_, _)
TotalExpensesLoop(expenses_data, i) ==
  IF i > Len(expenses_data) THEN 0
  ELSE sum(Values(expenses_data[i].value)) + TotalExpensesLoop(expenses_data, i + 1)

\* a slip: total = sum(...) in place of total += sum(...)
get_total_expenses_assign(expenses_data) ==
  IF expenses_data = <<>> THEN 0 ELSE sum(Values(expenses_data[Len(expenses_data)].value))

get_total_expenses(expenses_data) == TotalExpensesLoop(expenses_data, 1)

get_savings(income, expenses) == income - expenses


\* a slip: the amount > 0 test left out
SubcategoryLines_unfiltered(category, subcategories, j) ==
  [k \in 1..(Len(subcategories) - j + 1) |->
     ("Category" :> <<category, " - ", subcategories[k + j - 1].key>>
      @@ "Amount" :> subcategories[k + j - 1].value
      @@ "Parent" :> Str(category))]

RECURSIVE SubcategoryLines(_, _, _)
SubcategoryLines(category, subcategories, j) ==
  IF j > Len(subcategories) THEN <<>>
  ELSE (IF subcategories[j].value > 0
          THEN << ("Category" :> <<category, " - ", subcategories[j].key>>
                   @@ "Amount" :> subcategories[j].value
                   @@ "Parent" :> Str(category)) >>
          ELSE <<>>)
       \o SubcategoryLines(category, subcategories, j + 1)

RECURSIVE BreakdownLoop(_, _)
BreakdownLoop(expenses_data, i) ==
  IF i > Len(expenses_data) THEN <<>>
  ELSE LET category == expenses_data[i].key
           subcategories == expenses_data[i].value
           category_total == sum(Values(subcategories))
       IN  << ("Category" :> Str(category) @@ "Amount" :> category_total) >>
           \o SubcategoryLines(category, subcategories, 1)
           \o BreakdownLoop(expenses_data, i + 1)

\* the rows of the DataFrame get_expense_breakdown returns
get_expense_breakdown(expenses_data) == BreakdownLoop(expenses_data, 1)

----------------------------------------------------------------------------
(* Edit Budget tab: every number_input writes its value into budget_data *)

IncomeKey(category) == <<"income_", category>>
ExpenseKey(category, subcategory) == <<"expense_", category, "_", subcategory>>

\* st.number_input(min_value=0, value=v, key=k): what the user typed into the
\* widget, which the widget keeps >= min_value, or v when nothing was typed
number_input(form, k, v) == IF k \in DOMAIN form THEN form[k] ELSE v

RECURSIVE EditIncome(_, _, _)
EditIncome(income, form, i) ==
  IF i > Len(INCOME_CATEGORIES) THEN income
  ELSE LET category == INCOME_CATEGORIES[i]
       IN  EditIncome(DictSet(income, category,
                              number_input(form, IncomeKey(category), DictGet(income, category, 0))),
                      form, i + 1)

RECURSIVE EditSubcategories(_, _, _, _, _)
EditSubcategories(values, category, subcategories, form, j) ==
  IF j > Len(subcategories) THEN values
  ELSE LET subcategory == subcategories[j]
       IN  EditSubcategories(
             DictSet(values, subcategory,
                     number_input(form, ExpenseKey(category, subcategory),
                                  DictGet(values, subcategory, 0))),
             category, subcategories, form, j + 1)

RECURSIVE EditExpenses(_, _, _)
EditExpenses(expenses, form, i) ==
  IF i > Len(EXPENSE_CATEGORIES) THEN expenses
  ELSE LET category == EXPENSE_CATEGORIES[i].key
       IN  EditExpenses(
             DictSet(expenses, category,
                     EditSubcategories(DictGet(expenses, category, <<>>), category,
                                       EXPENSE_CATEGORIES[i].value, form, 1)),
             form, i + 1)

EditBudget(data, form) ==
  [income |-> EditIncome(data.income, form, 1),
   expenses |-> EditExpenses(data.expenses, form, 1)]

----------------------------------------------------------------------------
(* The form values the snapshots are drawn from *)

MaxSalarySteps == 1

SalaryInputs == {1000 * k : k \in 0..MaxSalarySteps}
SideIncomeInputs == {0, 1000}
RentInputs == {0, 300, 400}
PublicTransportInputs == {0, 150, 200}
GroceriesInputs == {0, 200}
EatingOutInputs == {0, 100}
FoodDeliveryInputs == {0, 50}
StreamingInputs == {0, 800, 801}
HobbiesInputs == {0, 100}
EmergencyFundInputs == {0, 100, 200}

WidgetKeys ==
  {IncomeKey(INCOME_CATEGORIES[i]) : i \in DOMAIN INCOME_CATEGORIES}
  \cup UNION {{ExpenseKey(EXPENSE_CATEGORIES[i].key, EXPENSE_CATEGORIES[i].value[j]) :
                 j \in DOMAIN EXPENSE_CATEGORIES[i].value} : i \in DOMAIN EXPENSE_CATEGORIES}

\* every widget set to 0
ZeroForm == [k \in WidgetKeys |-> 0]

\* no widget touched: the snapshot stays as loaded
NoInput == [k \in {} |-> 0]

ScenarioA ==
  (IncomeKey("Salary") :> 45000 @@ ExpenseKey("Housing", "Rent/Mortgage") :> 12000
   @@ ExpenseKey("Housing", "Utilities") :> 1200) @@ ZeroForm

ScenarioB ==
  (IncomeKey("Salary") :> 20000 @@ ExpenseKey("Housing", "Rent/Mortgage") :> 8000) @@ ZeroForm

ScenarioC ==
  (ExpenseKey("Food", "Eating Out") :> 1000 @@ ExpenseKey("Food", "Food Delivery") :> 500
   @@ ExpenseKey("Food", "Groceries") :> 2000) @@ ZeroForm

GridForms ==
  { (IncomeKey("Salary") :> salary
     @@ IncomeKey("Side Income") :> side
     @@ ExpenseKey("Housing", "Rent/Mortgage") :> rent
     @@ ExpenseKey("Transportation", "Public Transport") :> transport
     @@ ExpenseKey("Food", "Groceries") :> groceries
     @@ ExpenseKey("Food", "Eating Out") :> eating
     @@ ExpenseKey("Food", "Food Delivery") :> delivery
     @@ ExpenseKey("Entertainment", "Streaming Services") :> streaming
     @@ ExpenseKey("Entertainment", "Hobbies") :> hobbies
     @@ ExpenseKey("Savings", "Emergency Fund") :> fund) @@ ZeroForm :
      salary \in SalaryInputs, side \in SideIncomeInputs, rent \in RentInputs,
      transport \in PublicTransportInputs, groceries \in GroceriesInputs,
      eating \in EatingOutInputs, delivery \in FoodDeliveryInputs,
      streaming \in StreamingInputs, hobbies \in HobbiesInputs,
      fund \in EmergencyFundInputs }

Forms == GridForms \cup {NoInput, ScenarioA, ScenarioB, ScenarioC}

----------------------------------------------------------------------------
(* Percentages *)

Zero == [kind |-> "finite", num |-> 0, den |-> 1]

\* Python: x / y * 100 raises ZeroDivisionError when y = 0
PyPercent(x, y) ==
  IF y = 0 THEN [kind |-> "ZeroDivisionError", num |-> x, den |-> 0]
  ELSE [kind |-> "finite", num |-> x, den |-> y]

\* polars: pl.col / y * 100 on a Float64 column gives inf or NaN when y = 0
PlPercent(x, y) ==
  IF y = 0 THEN [kind |-> IF x = 0 THEN "NaN" ELSE "inf", num |-> x, den |-> 0]
  ELSE [kind |-> "finite", num |-> x, den |-> y]

\* p < n, p > n for a finite percentage p and a whole number n
PctLess(p, n) == p.num * 100 < n * p.den
PctGreater(p, n) == p.num * 100 > n * p.den

----------------------------------------------------------------------------
(* Dashboard tab.  A behaviour is one script run over the loaded snapshot:  *)
(* call records the one function the run has applied and what it returned. *)

Idle == call.fn = "none"

\* main: the key metrics of the dashboard
Metrics ==
  LET total_income == get_total_income(budget_data.income)
      total_expenses == get_total_expenses(budget_data.expenses)
      savings == get_savings(total_income, total_expenses)
  IN  /\ Idle
      /\ call' = [fn |-> "metrics",
                  total_income |-> total_income,
                  total_expenses |-> total_expenses,
                  savings |-> savings,
                  savings_rate |-> IF total_income > 0 THEN PyPercent(savings, total_income) ELSE Zero]
      /\ UNCHANGED <<budget_data, files, dirs, session_state, script>>

ExpenseBreakdown ==
  /\ Idle
  /\ call' = [fn |-> "get_expense_breakdown",
              expense_df |-> get_expense_breakdown(budget_data.expenses)]
  /\ UNCHANGED <<budget_data, files, dirs, session_state, script>>

\* df.filter(pl.col('Category').str.contains(' - ')) when keep, and the
\* filter on the negation when not
FilterContains(df, keep) == SelectSeq(df, LAMBDA row : Contains(row["Category"], " - ") = keep)

\* df.sort('Amount', descending=True).  polars promises no order among equal
\* keys; ties says which of two orders the rows of equal Amount come out in
RECURSIVE SortDescending(_, _)
SortDescending(df, ties) ==
  IF df = <<>> THEN <<>>
  ELSE LET top == {i \in DOMAIN df : \A j \in DOMAIN df : df[j]["Amount"] <= df[i]["Amount"]}
           b == IF ties = "first"
                  THEN CHOOSE i \in top : \A j \in top : i <= j
                  ELSE CHOOSE i \in top : \A j \in top : i >= j
       IN  <<df[b]>> \o SortDescending(SubSeq(df, 1, b - 1) \o SubSeq(df, b + 1, Len(df)), ties)

\* a slip: the whole label taken as the parent, not the part before ' - '
HierarchyData_label_parent(expense_df, main_categories) ==
  [i \in DOMAIN main_categories |->
     [id |-> main_categories[i]["Category"],
      parent |-> <<>>,
      value |-> main_categories[i]["Amount"],
      name |-> main_categories[i]["Category"],
      is_root |-> TRUE]]
  \o LET subs == FilterContains(expense_df, TRUE)
     IN  [i \in DOMAIN subs |->
            [id |-> subs[i]["Category"],
             parent |-> subs[i]["Category"],
             value |-> subs[i]["Amount"],
             name |-> Split(subs[i]["Category"], " - ")[2],
             is_root |-> FALSE]]

\* main: hierarchy_data of the treemap and the sunburst
HierarchyData(expense_df, main_categories) ==
  [i \in DOMAIN main_categories |->
     [id |-> main_categories[i]["Category"],
      parent |-> <<>>,
      value |-> main_categories[i]["Amount"],
      name |-> main_categories[i]["Category"],
      is_root |-> TRUE]]
  \o LET subs == FilterContains(expense_df, TRUE)
     IN  [i \in DOMAIN subs |->
            LET parts == Split(subs[i]["Category"], " - ")
            IN  [id |-> subs[i]["Category"],
                 parent |-> parts[1],
                 value |-> subs[i]["Amount"],
                 name |-> parts[2],
                 is_root |-> FALSE]]

Hierarchy ==
  /\ Idle
  /\ get_total_expenses(budget_data.expenses) > 0
  /\ \E ties \in {"first", "last"} :
       LET expense_df == get_expense_breakdown(budget_data.expenses)
           main_categories == SortDescending(FilterContains(expense_df, FALSE), ties)
       IN  call' = [fn |-> "hierarchy",
                    hierarchy_data |-> HierarchyData(expense_df, main_categories)]
  /\ UNCHANGED <<budget_data, files, dirs, session_state, script>>

\* main: expense_vs_income, the Budget Allocation chart
ExpenseVsIncome(main_categories, total_income) ==
  [i \in DOMAIN main_categories |->
     main_categories[i] @@ "Percentage_of_Income" :> PlPercent(main_categories[i]["Amount"], total_income)]

BudgetAllocation ==
  /\ Idle
  /\ get_total_expenses(budget_data.expenses) > 0
  /\ \E ties \in {"first", "last"} :
       LET expense_df == get_expense_breakdown(budget_data.expenses)
           main_categories == SortDescending(FilterContains(expense_df, FALSE), ties)
       IN  call' = [fn |-> "expense_vs_income",
                    expense_vs_income |->
                      ExpenseVsIncome(main_categories, get_total_income(budget_data.income))]
  /\ UNCHANGED <<budget_data, files, dirs, session_state, script>>

----------------------------------------------------------------------------
(* Savings suggestions *)

\* the figures generate_savings_suggestions computes before it tests its rules
SuggestionFigures(data) ==
  LET income_data == data.income
      expenses_data == data.expenses
      total_income == get_total_income(income_data)
      total_expenses == get_total_expenses(expenses_data)
      current_savings == get_savings(total_income, total_expenses)
      food_expenses == DictGet(expenses_data, "Food", <<>>)
      housing_total == sum(Values(DictGet(expenses_data, "Housing", <<>>)))
      entertainment_total == sum(Values(DictGet(expenses_data, "Entertainment", <<>>)))
      transport_total == sum(Values(DictGet(expenses_data, "Transportation", <<>>)))
  IN  [total_income |-> total_income,
       current_savings |-> current_savings,
       savings_rate |-> IF total_income > 0 THEN PyPercent(current_savings, total_income) ELSE Zero,
       housing_total |-> housing_total,
       housing_pct |-> IF total_income > 0 THEN PyPercent(housing_total, total_income) ELSE Zero,
       eating_out |-> DictGet(food_expenses, "Eating Out", 0) + DictGet(food_expenses, "Food Delivery", 0),
       groceries |-> DictGet(food_expenses, "Groceries", 0),
       entertainment_total |-> entertainment_total,
       entertainment_pct |-> IF total_income > 0 THEN PyPercent(entertainment_total, total_income) ELSE Zero,
       streaming_services |-> DictGet(DictGet(expenses_data, "Entertainment", <<>>), "Streaming Services", 0),
       transport_total |-> transport_total,
       transport_pct |-> IF total_income > 0 THEN PyPercent(transport_total, total_income) ELSE Zero,
       emergency_fund |-> DictGet(DictGet(expenses_data, "Savings", <<>>), "Emergency Fund", 0)]

\* a suggestion: its title, the percentage its description shows (if any) and
\* potential_savings in tenths
Suggestion(title, shown, potential_savings) ==
  [title |-> title, description |-> shown, potential_savings |-> potential_savings]

\* a slip: <= 20 in place of < 20
SavingsRateRule_le(f) ==
  IF ~PctGreater(f.savings_rate, 20)
    THEN << Suggestion("Increase Your Savings Rate", <<f.savings_rate>>,
                       IF 10 * f.current_savings < 2 * f.total_income
                         THEN 2 * f.total_income - 10 * f.current_savings ELSE 0) >>
    ELSE <<>>

SavingsRateRule(f) ==
  IF PctLess(f.savings_rate, 20)
    THEN << Suggestion("Increase Your Savings Rate", <<f.savings_rate>>,
                       IF 10 * f.current_savings < 2 * f.total_income
                         THEN 2 * f.total_income - 10 * f.current_savings ELSE 0) >>
    ELSE <<>>

\* a slip: >= 30 in place of > 30
HousingRule_ge(f) ==
  IF ~PctLess(f.housing_pct, 30)
    THEN << Suggestion("Reduce Housing Costs", <<f.housing_pct>>,
                       IF 10 * f.housing_total > 3 * f.total_income
                         THEN 10 * f.housing_total - 3 * f.total_income ELSE 0) >>
    ELSE <<>>

HousingRule(f) ==
  IF PctGreater(f.housing_pct, 30)
    THEN << Suggestion("Reduce Housing Costs", <<f.housing_pct>>,
                       IF 10 * f.housing_total > 3 * f.total_income
                         THEN 10 * f.housing_total - 3 * f.total_income ELSE 0) >>
    ELSE <<>>

\* a slip: eating out compared with the whole of groceries, not half
DiningOutRule_whole(f) ==
  IF f.eating_out > f.groceries /\ f.eating_out > 0
    THEN << Suggestion("Reduce Dining Out Expenses",
                       <<PyPercent(f.eating_out, f.eating_out + f.groceries)>>,
                       5 * f.eating_out) >>
    ELSE <<>>

DiningOutRule(f) ==
  IF 10 * f.eating_out > 5 * f.groceries /\ f.eating_out > 0
    THEN << Suggestion("Reduce Dining Out Expenses",
                       <<PyPercent(f.eating_out, f.eating_out + f.groceries)>>,
                       5 * f.eating_out) >>
    ELSE <<>>

EntertainmentRule(f) ==
  IF PctGreater(f.entertainment_pct, 10)
    THEN << Suggestion("Review Entertainment Spending", <<f.entertainment_pct>>,
                       3 * f.entertainment_total) >>
    ELSE <<>>

SubscriptionRule(f) ==
  IF f.streaming_services > 800
    THEN << Suggestion("Review Subscription Services", <<>>, 4 * f.streaming_services) >>
    ELSE <<>>

TransportationRule(f) ==
  IF PctGreater(f.transport_pct, 15)
    THEN << Suggestion("Optimize Transportation Costs", <<f.transport_pct>>,
                       2 * f.transport_total) >>
    ELSE <<>>

\* a slip: <= in place of <
EmergencyFundRule_le(f) ==
  IF 10 * f.emergency_fund <= f.total_income
    THEN << Suggestion("Build an Emergency Fund", <<>>, -f.total_income) >>
    ELSE <<>>

EmergencyFundRule(f) ==
  IF 10 * f.emergency_fund < f.total_income
    THEN << Suggestion("Build an Emergency Fund", <<>>, -f.total_income) >>
    ELSE <<>>

\* a slip: the subscription rule tested before the entertainment rule
generate_savings_suggestions_swapped(data) ==
  LET f == SuggestionFigures(data)
  IN  SavingsRateRule(f) \o HousingRule(f) \o DiningOutRule(f) \o SubscriptionRule(f)
      \o EntertainmentRule(f) \o TransportationRule(f) \o EmergencyFundRule(f)

generate_savings_suggestions(data) ==
  LET f == SuggestionFigures(data)
  IN  SavingsRateRule(f) \o HousingRule(f) \o DiningOutRule(f) \o EntertainmentRule(f)
      \o SubscriptionRule(f) \o TransportationRule(f) \o EmergencyFundRule(f)

SavingsSuggestions ==
  /\ Idle
  /\ call' = [fn |-> "generate_savings_suggestions",
              figures |-> SuggestionFigures(budget_data),
              suggestions |-> generate_savings_suggestions(budget_data)]
  /\ UNCHANGED <<budget_data, files, dirs, session_state, script>>

----------------------------------------------------------------------------
(* Excel export: the rows of the three sheets *)

RECURSIVE ExportSubcategoryRows(_, _, _, _, _)
ExportSubcategoryRows(category, subcategories, category_total, total_income, j) ==
  IF j > Len(subcategories) THEN <<>>
  ELSE LET amount == subcategories[j].value
       IN  (IF amount > 0
              THEN << ("Main Category" :> category
                       @@ "Subcategory" :> subcategories[j].key
                       @@ "Amount" :> Float(amount)
                       @@ "Percentage of Category" :>
                            (IF category_total > 0 THEN PyPercent(amount, category_total) ELSE Zero)
                       @@ "Percentage of Income" :>
                            (IF total_income > 0 THEN PyPercent(amount, total_income) ELSE Zero)) >>
              ELSE <<>>)
           \o ExportSubcategoryRows(category, subcategories, category_total, total_income, j + 1)

RECURSIVE ExportExpenseRows(_, _, _)
ExportExpenseRows(expenses_data, total_income, i) ==
  IF i > Len(expenses_data) THEN <<>>
  ELSE LET category == expenses_data[i].key
           subcategories == expenses_data[i].value
           category_total == sum(Values(subcategories))
       IN  << ("Main Category" :> category
               @@ "Subcategory" :> "TOTAL"
               @@ "Amount" :> Float(category_total)
               @@ "Percentage of Income" :>
                    (IF total_income > 0 THEN PyPercent(category_total, total_income) ELSE Zero)) >>
           \o ExportSubcategoryRows(category, subcategories, category_total, total_income, 1)
           \o ExportExpenseRows(expenses_data, total_income, i + 1)

\* a slip the export could make: only the sources with income, as the
\* dashboard's income pie chart filters them
ExportIncomeRows_positive(income_data) ==
  LET kept == SelectSeq(income_data, LAMBDA item : item.value > 0)
  IN  [i \in DOMAIN kept |-> [Category |-> kept[i].key, Amount |-> Float(kept[i].value)]]

ExportIncomeRows(income_data) ==
  [i \in DOMAIN income_data |->
     [Category |-> income_data[i].key, Amount |-> Float(income_data[i].value)]]

export_to_excel(data) ==
  LET income_data == data.income
      expenses_data == data.expenses
      total_income == get_total_income(income_data)
      total_expenses == get_total_expenses(expenses_data)
      savings == get_savings(total_income, total_expenses)
      savings_rate == IF total_income > 0 THEN PyPercent(savings, total_income) ELSE Zero
  IN  [Summary |-> << [Category |-> "Total Income", Amount |-> Float(total_income)],
                      [Category |-> "Total Expenses", Amount |-> Float(total_expenses)],
                      [Category |-> "Savings", Amount |-> Float(savings)],
                      [Category |-> "Savings Rate (%)", Amount |-> savings_rate] >>,
       Income |-> ExportIncomeRows(income_data),
       Expenses |-> ExportExpenseRows(expenses_data, total_income, 1)]

ExportToExcel ==
  /\ Idle
  /\ call' = [fn |-> "export_to_excel", sheets |-> export_to_excel(budget_data)]
  /\ UNCHANGED <<budget_data, files, dirs, session_state, script>>

----------------------------------------------------------------------------
(* The store: the files under user_data, and each browser session's        *)
(* st.session_state.                                                       *)
(*  - A path is a sequence of components, each a str; files maps the       *)
(*    resolved path of every existing file to its content, dirs is the set *)
(*    of existing directories.                                             *)
(*  - A file's content is [kind, value]: kind "json" is the text json.dump *)
(*    writes for value; any other kind is text that json.load rejects.     *)
(*  - script is, for each session, where its script thread stands inside a *)
(*    run of main that has not finished, with the thread's budget_data.    *)

Usernames == {"ann", "bob"}
Passwords == {"pw"}
Sessions == {"s1"}

\* hashlib.md5(username.encode()).hexdigest()
hexdigest(username) ==
  CASE username = "ann" -> "7e0d7f8a5d96c24ffcc840f31bce72b2"
    [] username = "bob" -> "9f9d51bc70ef21ca5c14f307980a29d8"

\* os.path.join(directory, name): name may hold '/' separators
Join(directory, name) == directory \o Split(name, "/")

\* the file the operating system opens for a path: '..' steps to the parent
RECURSIVE ResolveFrom(_, _)
ResolveFrom(done, rest) ==
  IF rest = <<>> THEN done
  ELSE IF Head(rest) = <<"..">>
         THEN ResolveFrom(SubSeq(done, 1, Len(done) - 1), Tail(rest))
         ELSE ResolveFrom(Append(done, Head(rest)), Tail(rest))

Resolve(path) == ResolveFrom(<<>>, path)

get_user_file_path(user_id) == Join(<<Str("user_data")>>, <<user_id, ".json">>)

PresetDir(user_id) == Join(<<Str("user_data")>>, Str(user_id))

\* os.path.join(preset_dir, f"{save_name}.json")
PresetFilePath(user_id, save_name) == Join(PresetDir(user_id), save_name \o <<".json">>)

\* json.dump(data, f) into a file opened with 'w': the whole text replaces the content
json_dump(data) == [kind |-> "json", value |-> data]

\* json.load(f)
json_load(content) ==
  IF content.kind = "json" THEN [raised |-> "none", value |-> content.value]
  ELSE [raised |-> "JSONDecodeError", value |-> content.value]

\* with open(path, 'w') as f: json.dump(data, f)
WriteJson(fs, path, data) == (Resolve(path) :> json_dump(data)) @@ fs

\* [f for f in os.listdir(preset_dir) if f.endswith('.json')]
PresetFiles(fs, user_id) ==
  {p[Len(p)] : p \in {q \in DOMAIN fs :
                        /\ Len(q) = Len(PresetDir(user_id)) + 1
                        /\ SubSeq(q, 1, Len(q) - 1) = PresetDir(user_id)
                        /\ q[Len(q)][Len(q[Len(q)])] = ".json"}}

\* a slip: the file opened without the os.path.exists test
load_budget_data_unguarded(fs, user_id) ==
  LET file_path == get_user_file_path(user_id)
  IN  IF file_path \in DOMAIN fs THEN json_load(fs[file_path])
      ELSE [raised |-> "FileNotFoundError", value |-> get_default_budget]

load_budget_data(fs, user_id) ==
  LET file_path == get_user_file_path(user_id)
  IN  IF file_path \in DOMAIN fs THEN json_load(fs[file_path])
      ELSE [raised |-> "none", value |-> get_default_budget]

save_budget_data(fs, data, user_id) == WriteJson(fs, get_user_file_path(user_id), data)

\* st.session_state of a session with no key set
NoSession == [user_id |-> "", logged_in |-> FALSE, username |-> "", widgets |-> NoInput]

\* 'user_id' in st.session_state
HasUserId(s) == session_state[s].user_id # ""

\* a session's script thread when no run of main is in progress
NotRunning == [at |-> "idle"]

NoFiles == [p \in {} |-> json_dump(get_default_budget)]

\* what one run of main computes for a logged-in session before any button:
\* the load (line 422), the first use of both keys (lines 432-433), and
\* budget_data as the Edit tab leaves it
ScriptRunOf(fs, user_id, widgets) ==
  LET loaded == load_budget_data(fs, user_id)
      raised == IF loaded.raised # "none" THEN loaded.raised
                ELSE IF ~({"income", "expenses"} \subseteq DOMAIN loaded.value) THEN "KeyError"
                ELSE "none"
  IN  [loaded |-> loaded,
       raised |-> raised,
       budget_data |-> IF raised = "none" THEN EditBudget(loaded.value, widgets)
                       ELSE budget_data]

ScriptRun(s) == ScriptRunOf(files, session_state[s].user_id, session_state[s].widgets)

\* st.rerun(): the script runs again against the store the handler left
Rerun(fs, s) ==
  ScriptRunOf(fs, session_state[s].user_id, session_state[s].widgets).budget_data

Handled(fn, s, name, raised) ==
  [fn |-> fn, user_id |-> session_state[s].user_id, name |-> name, raised |-> raised]

----------------------------------------------------------------------------
(* Sidebar: login, account creation, logout *)

Login(s, username, password) ==
  /\ ~HasUserId(s)
  /\ username # "" /\ password # ""
  /\ session_state' = [session_state EXCEPT ![s] =
                         [@ EXCEPT !.user_id = hexdigest(username),
                                   !.logged_in = TRUE,
                                   !.username = username]]
  /\ call' = [fn |-> "Login", user_id |-> hexdigest(username),
              name |-> <<>>, raised |-> "none"]
  /\ budget_data' = ScriptRunOf(files, hexdigest(username), session_state[s].widgets).budget_data
  /\ UNCHANGED <<files, dirs, script>>

CreateNewAccount(s, username, password) ==
  /\ ~HasUserId(s)
  /\ username # "" /\ password # ""
  /\ session_state' = [session_state EXCEPT ![s] =
                         [@ EXCEPT !.user_id = hexdigest(username),
                                   !.logged_in = TRUE,
                                   !.username = username]]
  /\ files' = save_budget_data(files, get_default_budget, hexdigest(username))
  /\ call' = [fn |-> "Create New Account", user_id |-> hexdigest(username),
              name |-> <<>>, raised |-> "none"]
  /\ budget_data' = ScriptRunOf(files', hexdigest(username), session_state[s].widgets).budget_data
  /\ UNCHANGED <<dirs, script>>

Logout(s) ==
  /\ HasUserId(s)
  /\ session_state' = [session_state EXCEPT ![s] = NoSession]
  /\ call' = Handled("Logout", s, <<>>, "none")
  /\ UNCHANGED <<budget_data, files, dirs, script>>

----------------------------------------------------------------------------
(* The page of a logged-in session.  A run of main loads the snapshot and  *)
(* renders the Edit tab before it reaches any button.                      *)

\* a run with no button pressed (the rerun after login, a page refresh)
ViewPage(s) ==
  /\ HasUserId(s)
  /\ LET run == ScriptRun(s)
     IN  /\ budget_data' = run.budget_data
         /\ call' = [fn |-> "load_budget_data", user_id |-> session_state[s].user_id,
                     name |-> <<>>, raised |-> run.loaded.raised,
                     returned |-> run.loaded.value]
  /\ UNCHANGED <<files, dirs, session_state, script>>

\* number_input(min_value=0): the widget takes no value below min_value
WidgetAccepts_any(v) == TRUE

WidgetAccepts(v) == v >= 0

\* the user sets one number_input of the Edit tab; the script reruns
TypeValue(s, k, v) ==
  /\ HasUserId(s)
  /\ WidgetAccepts(v)
  /\ LET run == ScriptRun(s)
     IN  /\ run.raised = "none"
         /\ budget_data' = EditBudget(run.loaded.value, (k :> v) @@ session_state[s].widgets)
  /\ session_state' = [session_state EXCEPT ![s].widgets = (k :> v) @@ @]
  /\ call' = Handled("number_input", s, k, "none")
  /\ UNCHANGED <<files, dirs, script>>

\* the rerun loads what was saved, and the Edit tab leaves it as it is
UpdateBudget(s) ==
  /\ HasUserId(s)
  /\ LET run == ScriptRun(s)
     IN  /\ run.raised = "none"
         /\ files' = save_budget_data(files, run.budget_data, session_state[s].user_id)
         /\ budget_data' = run.budget_data
  /\ call' = Handled("Update Budget", s, <<>>, "none")
  /\ UNCHANGED <<dirs, session_state, script>>

SaveBudgetPreset(s, save_name) ==
  /\ HasUserId(s)
  /\ LET run == ScriptRun(s)
     IN  /\ run.raised = "none"
         /\ files' = WriteJson(files, PresetFilePath(session_state[s].user_id, save_name),
                               run.budget_data)
         /\ budget_data' = run.budget_data
  /\ dirs' = dirs \cup {PresetDir(session_state[s].user_id)}
  /\ call' = Handled("Save Budget Preset", s, save_name, "none")
  /\ UNCHANGED <<session_state, script>>

LoadSelectedPreset(s, selected_file) ==
  /\ HasUserId(s)
  /\ PresetDir(session_state[s].user_id) \in dirs
  /\ selected_file \in PresetFiles(files, session_state[s].user_id)
  /\ LET run == ScriptRun(s)
         loaded_data == json_load(files[<<Str("user_data"), Str(session_state[s].user_id),
                                          selected_file>>])
     IN  /\ run.raised = "none"
         /\ IF loaded_data.raised = "none"
              THEN /\ files' = save_budget_data(files, loaded_data.value,
                                                session_state[s].user_id)
                   /\ budget_data' = Rerun(files', s)
                   /\ call' = Handled("Load Selected Preset", s, selected_file, "none")
              ELSE /\ files' = files
                   /\ budget_data' = run.budget_data
                   /\ call' = Handled("Load Selected Preset", s, selected_file,
                                      loaded_data.raised)
  /\ UNCHANGED <<dirs, session_state, script>>

\* a slip: the reset saves the page's budget_data
ResetToDefault_budget_data(s) ==
  /\ HasUserId(s)
  /\ ScriptRun(s).raised = "none"
  /\ files' = save_budget_data(files, ScriptRun(s).budget_data, session_state[s].user_id)
  /\ budget_data' = Rerun(files', s)
  /\ call' = Handled("Reset to Default Values", s, <<>>, "none")
  /\ UNCHANGED <<dirs, session_state, script>>

ResetToDefault(s) ==
  /\ HasUserId(s)
  /\ ScriptRun(s).raised = "none"
  /\ files' = save_budget_data(files, get_default_budget, session_state[s].user_id)
  /\ budget_data' = Rerun(files', s)
  /\ call' = Handled("Reset to Default Values", s, <<>>, "none")
  /\ UNCHANGED <<dirs, session_state, script>>

\* what the sessions type
TypedKeys == {IncomeKey("Salary")}
TypedValues == {-100, 0}
PresetNames == {<<"A">>, <<"..", "/", hexdigest("ann")>>}

StoreInit ==
  /\ budget_data = get_default_budget
  /\ call = [fn |-> "none"]
  /\ files = NoFiles
  /\ dirs = {<<Str("user_data")>>}
  /\ session_state = [s \in Sessions |-> NoSession]
  /\ script = [s \in Sessions |-> NotRunning]

StoreNext ==
  \E s \in Sessions :
    \/ \E username \in Usernames, password \in Passwords : Login(s, username, password)
    \/ \E username \in Usernames, password \in Passwords : CreateNewAccount(s, username, password)
    \/ Logout(s)
    \/ ViewPage(s)
    \/ \E k \in TypedKeys, v \in TypedValues : TypeValue(s, k, v)
    \/ UpdateBudget(s)
    \/ \E save_name \in PresetNames : SaveBudgetPreset(s, save_name)
    \/ \E selected_file \in PresetFiles(files, session_state[s].user_id) :
         LoadSelectedPreset(s, selected_file)
    \/ ResetToDefault(s)

StoreSpec == StoreInit /\ [][StoreNext]_vars

----------------------------------------------------------------------------
(* A store whose records can be malformed: a write that was cut short      *)
(* leaves text json.load rejects, and a file changed outside the program   *)
(* can parse to a document without the expenses key.                       *)

MalformedContents ==
  {[kind |-> "truncated", value |-> <<>>],
   json_dump([income |-> get_default_budget.income])}

Corrupt(username, content) ==
  /\ get_user_file_path(hexdigest(username)) \in DOMAIN files
  /\ files' = (get_user_file_path(hexdigest(username)) :> content) @@ files
  /\ call' = [fn |-> "none"]
  /\ UNCHANGED <<budget_data, dirs, session_state, script>>

CorruptNext ==
  \/ StoreNext
  \/ \E username \in Usernames, content \in MalformedContents : Corrupt(username, content)

CorruptSpec == StoreInit /\ [][CorruptNext]_vars

----------------------------------------------------------------------------
(* Two sessions of one user.  Streamlit runs each session's script in its  *)
(* own thread, and save_budget_data is two file operations with no lock:   *)
(* open(file_path, 'w') empties the file, and the text json.dump produced  *)
(* is written at the start of the file when the with block closes it.      *)
(* Text written over a longer text leaves the end of the longer one.       *)

ConcurrentSessions == {"s1", "s2"}

\* len(str(n)), n >= 0
RECURSIVE Digits(_)
Digits(n) == IF n < 10 THEN 1 ELSE 1 + Digits(n \div 10)

\* the digits in the text json.dump writes for a snapshot: two snapshots with
\* the Schema's keys differ in length by the digits of their amounts
DigitCount(data) ==
  sum([i \in DOMAIN data.income |-> Digits(data.income[i].value)])
  + sum([i \in DOMAIN data.expenses |->
           sum([j \in DOMAIN data.expenses[i].value |->
                  Digits(data.expenses[i].value[j].value)])])

\* the file after open(file_path, 'w')
Emptied == [kind |-> "empty", value |-> <<>>]

\* the file after the text of data is written at its start over old
Overwrite(old, data) ==
  IF old.kind = "empty" THEN json_dump(data)
  ELSE LET length == IF old.kind = "json" THEN DigitCount(old.value) ELSE old.length
       IN  IF length > DigitCount(data)
             THEN [kind |-> "extra_data", value |-> data, length |-> length]
             ELSE json_dump(data)

ScriptIdle(s) == script[s].at = "idle"

\* Update Budget pressed: the run has loaded the snapshot, rendered the Edit
\* tab and reached the call of save_budget_data
UpdatePressed(s) ==
  /\ ScriptIdle(s)
  /\ HasUserId(s)
  /\ LET run == ScriptRun(s)
     IN  /\ run.raised = "none"
         /\ budget_data' = run.budget_data
         /\ script' = [script EXCEPT ![s] = [at |-> "save_budget_data",
                                             budget_data |-> run.budget_data]]
  /\ call' = Handled("st.button", s, <<>>, "none")
  /\ UNCHANGED <<files, dirs, session_state>>

\* with open(file_path, 'w') as f:
OpenFile(s) ==
  /\ script[s].at = "save_budget_data"
  /\ files' = (get_user_file_path(session_state[s].user_id) :> Emptied) @@ files
  /\ script' = [script EXCEPT ![s].at = "json.dump"]
  /\ call' = Handled("open", s, <<>>, "none")
  /\ UNCHANGED <<budget_data, dirs, session_state>>

\* json.dump(data, f, indent=4) and the close of f; the handler ends
DumpAndClose(s) ==
  /\ script[s].at = "json.dump"
  /\ files' = (get_user_file_path(session_state[s].user_id)
                :> Overwrite(files[get_user_file_path(session_state[s].user_id)],
                             script[s].budget_data)) @@ files
  /\ budget_data' = script[s].budget_data
  /\ script' = [script EXCEPT ![s] = NotRunning]
  /\ call' = Handled("Update Budget", s, <<>>, "none")
  /\ UNCHANGED <<dirs, session_state>>

ConcurrentInit ==
  /\ budget_data = get_default_budget
  /\ call = [fn |-> "none"]
  /\ files = save_budget_data(NoFiles, get_default_budget, hexdigest("ann"))
  /\ dirs = {<<Str("user_data")>>}
  /\ session_state = [s \in ConcurrentSessions |->
                        [NoSession EXCEPT !.user_id = hexdigest("ann"),
                                          !.logged_in = TRUE,
                                          !.username = "ann"]]
  /\ script = [s \in ConcurrentSessions |-> NotRunning]

ConcurrentNext ==
  \E s \in ConcurrentSessions :
    \/ ScriptIdle(s) /\ ViewPage(s)
    \/ ScriptIdle(s) /\ \E k \in TypedKeys, v \in TypedValues : TypeValue(s, k, v)
    \/ UpdatePressed(s)
    \/ OpenFile(s)
    \/ DumpAndClose(s)

ConcurrentSpec == ConcurrentInit /\ [][ConcurrentNext]_vars

----------------------------------------------------------------------------

Init ==
  /\ \E form \in Forms : budget_data = EditBudget(get_default_budget, form)
  /\ call = [fn |-> "none"]
  /\ files = NoFiles
  /\ dirs = {<<Str("user_data")>>}
  /\ session_state = [s \in Sessions |-> NoSession]
  /\ script = [s \in Sessions |-> NotRunning]

Next ==
  \/ Metrics
  \/ ExpenseBreakdown
  \/ Hierarchy
  \/ BudgetAllocation
  \/ SavingsSuggestions
  \/ ExportToExcel

Spec == Init /\ [][Next]_vars

----------------------------------------------------------------------------
(* What the specification says of a snapshot, read off the Schema (not off  *)
(* the order or the keys the stored dicts happen to have)                   *)

IncomeAmount(data, category) == DictGet(data.income, category, 0)

ExpenseAmount(data, category, subcategory) ==
  DictGet(DictGet(data.expenses, category, <<>>), subcategory, 0)

CategoryTotal(data, i) ==
  sum([j \in DOMAIN EXPENSE_CATEGORIES[i].value |->
         ExpenseAmount(data, EXPENSE_CATEGORIES[i].key, EXPENSE_CATEGORIES[i].value[j])])

CategoryTotalOf(data, category) ==
  CategoryTotal(data, CHOOSE i \in DOMAIN EXPENSE_CATEGORIES : EXPENSE_CATEGORIES[i].key = category)

TotalIncome(data) ==
  sum([i \in DOMAIN INCOME_CATEGORIES |-> IncomeAmount(data, INCOME_CATEGORIES[i])])

TotalExpenses(data) == sum([i \in DOMAIN EXPENSE_CATEGORIES |-> CategoryTotal(data, i)])

\* the concatenation of a sequence of sequences
RECURSIVE Flatten(_)
Flatten(ss) == IF ss = <<>> THEN <<>> ELSE Head(ss) \o Flatten(Tail(ss))

Column(df, name) == [i \in DOMAIN df |-> df[i][name]]

NonNegativeAmounts(data) ==
  /\ \A i \in DOMAIN data.income : data.income[i].value \in Nat
  /\ \A i \in DOMAIN data.expenses :
       \A j \in DOMAIN data.expenses[i].value : data.expenses[i].value[j].value \in Nat

----------------------------------------------------------------------------
(* C1: for a snapshot of non-negative integer amounts, get_total_expenses   *)
(* is the sum over the categories of the sum of the category's subcategory  *)
(* amounts, and the amounts of the breakdown's category lines (the lines    *)
(* without a Parent) add up to that same total.                             *)
C1_TotalsConsistency ==
  NonNegativeAmounts(budget_data) =>
    /\ call.fn = "metrics" => call.total_expenses = TotalExpenses(budget_data)
    /\ call.fn = "get_expense_breakdown" =>
         /\ sum(Column(SelectSeq(call.expense_df, LAMBDA row : "Parent" \notin DOMAIN row), "Amount"))
              = get_total_expenses(budget_data.expenses)
         /\ get_total_expenses(budget_data.expenses) = TotalExpenses(budget_data)

C1_Witness ==
  /\ call.fn = "get_expense_breakdown"
  /\ Cardinality({i \in DOMAIN EXPENSE_CATEGORIES : CategoryTotal(budget_data, i) > 0}) >= 3
  /\ \E i \in DOMAIN call.expense_df : "Parent" \in DOMAIN call.expense_df[i]

(* C2: get_expense_breakdown returns the canonical sequence: per category   *)
(* in Schema order one category line (also when its total is 0) with the    *)
(* sum of its subcategories, directly followed by one line                  *)
(* "{category} - {subcategory}" with Parent = category for exactly the      *)
(* subcategories whose amount is > 0, in Schema order.                      *)
CanonicalCategory(data, i) ==
  LET category == EXPENSE_CATEGORIES[i].key
      subcategories == EXPENSE_CATEGORIES[i].value
  IN  << ("Category" :> <<category>> @@ "Amount" :> CategoryTotal(data, i)) >>
      \o Flatten([j \in DOMAIN subcategories |->
                    IF ExpenseAmount(data, category, subcategories[j]) > 0
                      THEN << ("Category" :> <<category, " - ", subcategories[j]>>
                               @@ "Amount" :> ExpenseAmount(data, category, subcategories[j])
                               @@ "Parent" :> <<category>>) >>
                      ELSE <<>>])

CanonicalBreakdown(data) ==
  Flatten([i \in DOMAIN EXPENSE_CATEGORIES |-> CanonicalCategory(data, i)])

C2_BreakdownCanonical ==
  call.fn = "get_expense_breakdown" => call.expense_df = CanonicalBreakdown(budget_data)

C2_Witness ==
  /\ call.fn = "get_expense_breakdown"
  /\ CategoryTotalOf(budget_data, "Housing") = 0
  /\ ExpenseAmount(budget_data, "Food", "Groceries") = 0
  /\ ExpenseAmount(budget_data, "Food", "Eating Out") > 0
  /\ ExpenseAmount(budget_data, "Food", "Food Delivery") > 0
  /\ Len(call.expense_df) > Len(EXPENSE_CATEGORIES)

(* C3: in the treemap/sunburst hierarchy, the values of the nodes whose     *)
(* parent is a root node add up to that root's value whenever the root has  *)
(* a child, and every child's parent is the id of an emitted root node.     *)
ChildrenOf(h, i) == SelectSeq(h, LAMBDA node : node.parent = h[i].id)

C3_HierarchyConservation ==
  call.fn = "hierarchy" =>
    LET h == call.hierarchy_data
    IN  /\ \A i \in DOMAIN h :
             (h[i].is_root /\ ChildrenOf(h, i) # <<>>) =>
               sum([k \in DOMAIN ChildrenOf(h, i) |-> ChildrenOf(h, i)[k].value]) = h[i].value
        /\ \A i \in DOMAIN h :
             ~h[i].is_root => \E j \in DOMAIN h : h[j].is_root /\ h[j].id = h[i].parent

C3_Witness ==
  /\ call.fn = "hierarchy"
  /\ \E i \in DOMAIN call.hierarchy_data :
       /\ call.hierarchy_data[i].is_root
       /\ Len(ChildrenOf(call.hierarchy_data, i)) >= 3
  /\ \E i \in DOMAIN call.hierarchy_data :
       /\ call.hierarchy_data[i].is_root
       /\ ChildrenOf(call.hierarchy_data, i) = <<>>

----------------------------------------------------------------------------
(* The rules of section 4.3, as predicates over the snapshot *)

HousingTotal(data) == CategoryTotalOf(data, "Housing")
EntertainmentTotal(data) == CategoryTotalOf(data, "Entertainment")
TransportTotal(data) == CategoryTotalOf(data, "Transportation")
Savings(data) == TotalIncome(data) - TotalExpenses(data)
EatingOut(data) ==
  ExpenseAmount(data, "Food", "Eating Out") + ExpenseAmount(data, "Food", "Food Delivery")
Groceries(data) == ExpenseAmount(data, "Food", "Groceries")
Streaming(data) == ExpenseAmount(data, "Entertainment", "Streaming Services")
EmergencyFund(data) == ExpenseAmount(data, "Savings", "Emergency Fund")

\* savingsRate < 20, savingsRate being 0 when income is 0
SavingsRateFires(data) ==
  IF TotalIncome(data) = 0 THEN TRUE ELSE 100 * Savings(data) < 20 * TotalIncome(data)

HousingFires(data) ==
  TotalIncome(data) > 0 /\ 100 * HousingTotal(data) > 30 * TotalIncome(data)

DiningOutFires(data) == 2 * EatingOut(data) > Groceries(data) /\ EatingOut(data) > 0

EntertainmentFires(data) ==
  TotalIncome(data) > 0 /\ 100 * EntertainmentTotal(data) > 10 * TotalIncome(data)

SubscriptionFires(data) == Streaming(data) > 800

TransportationFires(data) ==
  TotalIncome(data) > 0 /\ 100 * TransportTotal(data) > 15 * TotalIncome(data)

EmergencyFundFires(data) == 10 * EmergencyFund(data) < TotalIncome(data)

RuleOrder ==
  << "Increase Your Savings Rate", "Reduce Housing Costs", "Reduce Dining Out Expenses",
     "Review Entertainment Spending", "Review Subscription Services",
     "Optimize Transportation Costs", "Build an Emergency Fund" >>

RuleFires(data) ==
  << SavingsRateFires(data), HousingFires(data), DiningOutFires(data),
     EntertainmentFires(data), SubscriptionFires(data), TransportationFires(data),
     EmergencyFundFires(data) >>

Titles(suggestions) == [i \in DOMAIN suggestions |-> suggestions[i].title]

Emitted(title) == \E i \in DOMAIN call.suggestions : call.suggestions[i].title = title

Max(a, b) == IF a >= b THEN a ELSE b

Suggested == call.fn = "generate_savings_suggestions"

(* C4: the titles generate_savings_suggestions emits are exactly the        *)
(* subsequence of the fixed rule order (savings-rate, housing, dining-out,  *)
(* entertainment, subscription, transportation, emergency-fund) made of the *)
(* rules whose predicate holds of the snapshot, each at most once; the list *)
(* is a function of the snapshot alone.                                     *)
C4_RuleOrder ==
  Suggested =>
    Titles(call.suggestions)
      = Flatten([k \in DOMAIN RuleOrder |->
                   IF RuleFires(budget_data)[k] THEN <<RuleOrder[k]>> ELSE <<>>])

C4_Witness == Suggested /\ Titles(call.suggestions) = RuleOrder

(* C5: "Increase Your Savings Rate" is emitted iff savingsRate < 20         *)
(* (savings/income*100, 0 when income is 0), and then its potential_savings *)
(* is max(0, income*0.2 - savings), never negative.                         *)
C5_SavingsRateRule ==
  Suggested =>
    /\ Emitted("Increase Your Savings Rate") <=> SavingsRateFires(budget_data)
    /\ \A i \in DOMAIN call.suggestions :
         call.suggestions[i].title = "Increase Your Savings Rate" =>
           /\ call.suggestions[i].potential_savings
                = Max(0, 2 * TotalIncome(budget_data) - 10 * Savings(budget_data))
           /\ call.suggestions[i].potential_savings >= 0

C5_Witness ==
  /\ Suggested
  /\ TotalIncome(budget_data) > 0
  /\ Savings(budget_data) > 0
  /\ \E i \in DOMAIN call.suggestions :
       /\ call.suggestions[i].title = "Increase Your Savings Rate"
       /\ call.suggestions[i].potential_savings > 0

(* C6: "Reduce Housing Costs" is emitted iff income > 0 and                 *)
(* housingTotal/income*100 > 30 (strictly), and then its potential_savings  *)
(* is max(0, housingTotal - income*0.3); income 20000 with housing 8000     *)
(* fires with 2000, income 45000 with housing 13200 does not fire.          *)
C6_HousingRule ==
  Suggested =>
    /\ Emitted("Reduce Housing Costs") <=> HousingFires(budget_data)
    /\ \A i \in DOMAIN call.suggestions :
         call.suggestions[i].title = "Reduce Housing Costs" =>
           call.suggestions[i].potential_savings
             = Max(0, 10 * HousingTotal(budget_data) - 3 * TotalIncome(budget_data))
    /\ (TotalIncome(budget_data) = 20000 /\ HousingTotal(budget_data) = 8000) =>
         \E i \in DOMAIN call.suggestions :
           /\ call.suggestions[i].title = "Reduce Housing Costs"
           /\ call.suggestions[i].potential_savings = Float(2000)
    /\ (TotalIncome(budget_data) = 45000 /\ HousingTotal(budget_data) = 13200) =>
         ~Emitted("Reduce Housing Costs")
    /\ (TotalIncome(budget_data) = 0
        \/ 100 * HousingTotal(budget_data) = 30 * TotalIncome(budget_data)) =>
         ~Emitted("Reduce Housing Costs")

C6_Witness ==
  /\ Suggested
  /\ TotalIncome(budget_data) = 20000
  /\ HousingTotal(budget_data) = 8000
  /\ Emitted("Reduce Housing Costs")

(* C7: with eatingOut = Eating Out + Food Delivery and groceries =          *)
(* Groceries, "Reduce Dining Out Expenses" is emitted iff                   *)
(* eatingOut > groceries*0.5 and eatingOut > 0, whatever the income, and    *)
(* then its potential_savings is eatingOut*0.5 (1000 + 500 against 2000     *)
(* fires with 750).                                                         *)
C7_DiningOutRule ==
  Suggested =>
    /\ Emitted("Reduce Dining Out Expenses") <=> DiningOutFires(budget_data)
    /\ \A i \in DOMAIN call.suggestions :
         call.suggestions[i].title = "Reduce Dining Out Expenses" =>
           call.suggestions[i].potential_savings = 5 * EatingOut(budget_data)
    /\ (EatingOut(budget_data) = 1500 /\ Groceries(budget_data) = 2000) =>
         \E i \in DOMAIN call.suggestions :
           /\ call.suggestions[i].title = "Reduce Dining Out Expenses"
           /\ call.suggestions[i].potential_savings = Float(750)

C7_Witness ==
  /\ Suggested
  /\ TotalIncome(budget_data) = 0
  /\ EatingOut(budget_data) = 1500
  /\ Groceries(budget_data) = 2000
  /\ Emitted("Reduce Dining Out Expenses")

DefinedRatio(p, denominator) == p.kind = "finite" /\ (denominator = 0 => p.num = 0)

C9_RatiosDefined ==
  LET income == TotalIncome(budget_data)
  IN  /\ call.fn = "metrics" => DefinedRatio(call.savings_rate, income)
      /\ Suggested =>
           /\ DefinedRatio(call.figures.savings_rate, income)
           /\ DefinedRatio(call.figures.housing_pct, income)
           /\ DefinedRatio(call.figures.entertainment_pct, income)
           /\ DefinedRatio(call.figures.transport_pct, income)
           /\ \A i \in DOMAIN call.suggestions :
                call.suggestions[i].title = "Reduce Dining Out Expenses" =>
                  DefinedRatio(call.suggestions[i].description[1],
                               EatingOut(budget_data) + Groceries(budget_data))
      /\ call.fn = "export_to_excel" =>
           /\ DefinedRatio(call.sheets.Summary[4].Amount, income)
           /\ \A i \in DOMAIN call.sheets.Expenses :
                LET row == call.sheets.Expenses[i]
                IN  /\ DefinedRatio(row["Percentage of Income"], income)
                    /\ "Percentage of Category" \in DOMAIN row =>
                         DefinedRatio(row["Percentage of Category"],
                                      CategoryTotalOf(budget_data, row["Main Category"]))
      /\ call.fn = "expense_vs_income" =>
           \A i \in DOMAIN call.expense_vs_income :
             DefinedRatio(call.expense_vs_income[i]["Percentage_of_Income"], income)

(* C10: the export's Income table has exactly one row per Schema income    *)
(* category (zero amounts included); its Expenses table has, per category  *)
(* in breakdown order, one TOTAL row with the category total followed by   *)
(* one row for exactly each subcategory with amount > 0, whose amount is   *)
(* that subcategory's value in the snapshot.                               *)
CanonicalExpenseRows(data) ==
  Flatten([i \in DOMAIN EXPENSE_CATEGORIES |->
    LET category == EXPENSE_CATEGORIES[i].key
        subcategories == EXPENSE_CATEGORIES[i].value
    IN  << <<category, "TOTAL", 10 * CategoryTotal(data, i)>> >>
        \o Flatten([j \in DOMAIN subcategories |->
                      IF ExpenseAmount(data, category, subcategories[j]) > 0
                        THEN << <<category, subcategories[j],
                                  10 * ExpenseAmount(data, category, subcategories[j])>> >>
                        ELSE <<>>])])

C10_ExportRows ==
  call.fn = "export_to_excel" =>
    /\ Len(call.sheets.Income) = Len(INCOME_CATEGORIES)
    /\ \A k \in DOMAIN INCOME_CATEGORIES :
         Cardinality({i \in DOMAIN call.sheets.Income :
                        call.sheets.Income[i].Category = INCOME_CATEGORIES[k]}) = 1
    /\ [i \in DOMAIN call.sheets.Expenses |->
          << call.sheets.Expenses[i]["Main Category"],
             call.sheets.Expenses[i]["Subcategory"],
             call.sheets.Expenses[i]["Amount"] >>]
         = CanonicalExpenseRows(budget_data)

C10_Witness ==
  /\ call.fn = "export_to_excel"
  /\ IncomeAmount(budget_data, "Salary") = 0
  /\ IncomeAmount(budget_data, "Side Income") > 0
  /\ CategoryTotalOf(budget_data, "Transportation") = 0
  /\ ExpenseAmount(budget_data, "Entertainment", "Streaming Services") > 0
  /\ ExpenseAmount(budget_data, "Entertainment", "Hobbies") > 0
  /\ Len(call.sheets.Expenses) > Len(EXPENSE_CATEGORIES) + 1

----------------------------------------------------------------------------
(* The store claims.  StoredCurrent is the user's record as the store      *)
(* holds it: the empty sequence when there is none.                        *)

StoredCurrent(fs, user_id) ==
  IF get_user_file_path(user_id) \in DOMAIN fs
    THEN <<fs[get_user_file_path(user_id)]>>
    ELSE <<>>

\* C11: a load returns the snapshot the store holds for the user, and for a
\* user with no record it returns the default snapshot, raises nothing and
\* creates no record: the store is the same after the load as before it.
C11_LoadReturnsStored ==
  [][call'.fn = "load_budget_data" =>
       /\ call'.raised = "none"
       /\ files' = files
       /\ IF StoredCurrent(files, call'.user_id) = <<>>
            THEN call'.returned = get_default_budget
            ELSE /\ StoredCurrent(files, call'.user_id)[1].kind = "json"
                 /\ call'.returned = StoredCurrent(files, call'.user_id)[1].value]_vars

\* a user with no record is shown the default snapshot, and still has no record
C11_Witness ==
  /\ call.fn = "load_budget_data"
  /\ StoredCurrent(files, call.user_id) = <<>>
  /\ call.returned = get_default_budget
  /\ \E p \in DOMAIN files : files[p].value # get_default_budget

\* C12: saving a preset, under whatever name, leaves the stored current
\* snapshot of the user who saves it as it was.
C12_PresetSaveLeavesCurrent ==
  [][call'.fn = "Save Budget Preset" /\ StoredCurrent(files, call'.user_id) # <<>> =>
       StoredCurrent(files', call'.user_id) = StoredCurrent(files, call'.user_id)]_vars

\* C13: Reset to Default Values leaves the default snapshot as the user's
\* stored current snapshot and changes no other file: every preset of the
\* user and every other user's snapshot and presets stay as they were.
C13_ResetFrame ==
  [][call'.fn = "Reset to Default Values" =>
       /\ StoredCurrent(files', call'.user_id) = <<json_dump(get_default_budget)>>
       /\ DOMAIN files' = DOMAIN files \cup {get_user_file_path(call'.user_id)}
       /\ \A p \in DOMAIN files :
            p # get_user_file_path(call'.user_id) => files'[p] = files[p]]_vars

\* bob has reset; he keeps a preset that differs from the default, and ann
\* keeps an edited snapshot and a preset
C13_Witness ==
  /\ call.fn = "Reset to Default Values"
  /\ call.user_id = hexdigest("bob")
  /\ StoredCurrent(files, hexdigest("bob")) = <<json_dump(get_default_budget)>>
  /\ PresetFiles(files, hexdigest("bob")) # {}
  /\ \A f \in PresetFiles(files, hexdigest("bob")) :
       files[<<Str("user_data"), Str(hexdigest("bob")), f>>].value # get_default_budget
  /\ StoredCurrent(files, hexdigest("ann")) # <<>>
  /\ StoredCurrent(files, hexdigest("ann")) # <<json_dump(get_default_budget)>>
  /\ PresetFiles(files, hexdigest("ann")) # {}

\* C14: a login or an account creation leaves every stored current snapshot
\* that exists in the store, and with the same content.
C14_SignInKeepsSnapshot ==
  [][call'.fn \in {"Login", "Create New Account"} =>
       \A username \in Usernames :
         StoredCurrent(files, hexdigest(username)) # <<>> =>
           StoredCurrent(files', hexdigest(username))
             = StoredCurrent(files, hexdigest(username))]_vars

\* a record that does not parse, or parses to a document without the income
\* or the expenses key
Malformed(content) ==
  \/ content.kind # "json"
  \/ ~({"income", "expenses"} \subseteq DOMAIN content.value)

\* C15: a load of a malformed record raises DataCorruptionError.
C15_MalformedRaises ==
  [][/\ call'.fn = "load_budget_data"
     /\ StoredCurrent(files, call'.user_id) # <<>>
     /\ Malformed(StoredCurrent(files, call'.user_id)[1])
     => call'.raised = "DataCorruptionError"]_vars

\* the keys of a dict, in order
Keys(d) == [i \in DOMAIN d |-> d[i].key]

\* a snapshot with exactly the Schema's keys and non-negative integer amounts
SchemaSnapshot(data) ==
  /\ DOMAIN data = {"income", "expenses"}
  /\ Keys(data.income) = INCOME_CATEGORIES
  /\ \A i \in DOMAIN data.income : data.income[i].value \in Nat
  /\ Keys(data.expenses) = Keys(EXPENSE_CATEGORIES)
  /\ \A i \in DOMAIN data.expenses :
       /\ Keys(data.expenses[i].value) = EXPENSE_CATEGORIES[i].value
       /\ \A j \in DOMAIN data.expenses[i].value : data.expenses[i].value[j].value \in Nat

\* C16: every stored current snapshot and every stored preset is JSON of a
\* snapshot with exactly the Schema's income keys and category and
\* subcategory keys, each amount a non-negative integer.
C16_StoredSnapshots ==
  \A p \in DOMAIN files : files[p].kind = "json" /\ SchemaSnapshot(files[p].value)

\* a preset with an edited amount has been loaded into the current snapshot
C16_Witness ==
  /\ call.fn = "Load Selected Preset"
  /\ call.raised = "none"
  /\ StoredCurrent(files, call.user_id) # <<json_dump(get_default_budget)>>
  /\ \E username \in Usernames :
       /\ username # "" /\ hexdigest(username) # call.user_id
       /\ StoredCurrent(files, hexdigest(username)) # <<>>

\* C17: when an Update Budget of a session has saved, the store holds
\* exactly the snapshot that was passed to that save.
C17_LastWriterWins ==
  call.fn = "Update Budget" =>
    StoredCurrent(files, call.user_id) = <<json_dump(budget_data)>>

\* C18: right after Save Budget Preset under a plain name, the stored preset
\* of that name equals the stored current snapshot of the user, which is
\* what load_budget_data returns for the user.
C18_PresetIsCurrent ==
  call.fn = "Save Budget Preset" /\ ~Contains(call.name, "/") =>
    files[PresetFilePath(call.user_id, call.name)].value
      = load_budget_data(files, call.user_id).value

====
